---- MODULE Spec2Model ----
(***************************************************************************)
(* taxadb: the 'taxadb create' pipeline of src/taxadb/app.py.              *)
(*                                                                         *)
(* create_db creates the two tables, loads the taxa parsed out of          *)
(* nodes.dmp and names.dmp inside one db.atomic() scope and then loads     *)
(* five accession2taxid files, each inside a db.atomic() scope of its own. *)
(*                                                                         *)
(* Text is modelled as a sequence of tokens: the delimiters "|", "\t" and  *)
(* "\n" are tokens of their own, every other token stands for a run of     *)
(* ordinary characters.  split, strip and rstrip work on these sequences   *)
(* the way the str methods work on characters.                             *)
(***************************************************************************)
EXTENDS Integers, Sequences, FiniteSets, TLC

VARIABLES
    nodes_file,      \* lines of nodes.dmp
    names_file,      \* lines of names.dmp
    acc_files,       \* the five accession2taxid files, each a sequence of lines
    pc,              \* position of create_db
    fileIdx,         \* number of _parse_accession2taxid calls started
    taxa_info_list,  \* _parse_taxdump: the merged records
    i,               \* _parse_taxdump: index of the batch loop
    linePos,         \* _parse_accession2taxid: lines of the open file read so far
    Taxa,            \* table Taxa as the connection sees it
    Sequence,        \* table Sequence as the connection sees it
    inTxn,           \* a db.atomic() scope is open
    committed,       \* the tables as last committed to the database file
    error,           \* "none", or what ended the run
    stdout           \* what print and print_help have written

vars == <<nodes_file, names_file, acc_files, pc, fileIdx, taxa_info_list, i,
          linePos, Taxa, Sequence, inTxn, committed, error, stdout>>

-----------------------------------------------------------------------------
(* Bounds of the model *)

MaxLines == 2
MaxAccData == 2
MaxTaxa == 1234

(* Program constants *)

BatchSize == 500
NumAccFiles == 5

\* the files create_db loads, in its order
AccNames == <<"nucl_est", "nucl_gb", "nucl_gss", "nucl_wgs", "prot">>

TAB == "\t"
NL == "\n"
PIPE == "|"
Marker == "scientific name"

Min(a, b) == IF a < b THEN a ELSE b

-----------------------------------------------------------------------------
(* str methods *)

RECURSIVE split(_, _)
split(s, sep) ==
    IF \A k \in 1..Len(s) : s[k] # sep
    THEN <<s>>
    ELSE LET k == CHOOSE k \in 1..Len(s) :
                    s[k] = sep /\ \A j \in 1..(k-1) : s[j] # sep
         IN  <<SubSeq(s, 1, k-1)>> \o split(SubSeq(s, k+1, Len(s)), sep)

RECURSIVE lstrip(_, _)
lstrip(s, ch) ==
    IF s # <<>> /\ Head(s) = ch THEN lstrip(Tail(s), ch) ELSE s

RECURSIVE rstrip(_, _)
rstrip(s, ch) ==
    IF s # <<>> /\ s[Len(s)] = ch THEN rstrip(SubSeq(s, 1, Len(s)-1), ch) ELSE s

strip(s, ch) == rstrip(lstrip(s, ch), ch)

\* 'scientific name' in line
Contains(line, marker) == \E k \in 1..Len(line) : line[k] = marker

-----------------------------------------------------------------------------
(* _parse_taxdump: parsing and merging *)

\* line_list[0], line_list[1] and line_list[2] exist
NodeLineOk(line) == Len(split(line, PIPE)) >= 3

NodeRecord(line) ==
    LET line_list == split(line, PIPE)
    IN  [ncbi_taxid    |-> strip(line_list[1], TAB),
         parent_taxid  |-> strip(line_list[2], TAB),
         tax_name      |-> <<>>,
         lineage_level |-> strip(line_list[3], TAB)]

NodesOk(file) == \A k \in 1..Len(file) : NodeLineOk(file[k])

ParseNodes(file) == [k \in 1..Len(file) |-> NodeRecord(file[k])]

\* a reader that keeps every line of names.dmp
RetainAll(line) == TRUE

Retained(line) == Contains(line, Marker)

NameLineOk(line) == Len(split(line, PIPE)) >= 2

NameRecord(line) ==
    LET line_list == split(line, PIPE)
    IN  [ncbi_taxid |-> strip(line_list[1], TAB),
         tax_name   |-> strip(line_list[2], TAB)]

NamesOk(file) ==
    \A k \in 1..Len(file) : Retained(file[k]) => NameLineOk(file[k])

ParseNames(file) ==
    LET kept == SelectSeq(file, Retained)
    IN  [k \in 1..Len(kept) |-> NameRecord(kept[k])]

\* {**nodes, **names}
DictMerge(nodes, names) ==
    [f \in DOMAIN nodes \cup DOMAIN names |->
        IF f \in DOMAIN names THEN names[f] ELSE nodes[f]]

\* for nodes, names in zip(nodes_data, names_data)
Merge(nodes_data, names_data) ==
    [k \in 1..Min(Len(nodes_data), Len(names_data)) |->
        DictMerge(nodes_data[k], names_data[k])]

\* a slice one record short: taxa_info_list[i:i+499]
BatchDropsLast(list, from) ==
    SubSeq(list, from + 1, Min(from + BatchSize - 1, Len(list)))

\* taxa_info_list[i:i+500], i counted from 0
Batch(list, from) == SubSeq(list, from + 1, Min(from + BatchSize, Len(list)))

-----------------------------------------------------------------------------
(* _parse_accession2taxid: one line *)

AccColumns(line) == split(rstrip(line, NL), TAB)

AccLineOk(line) == Len(AccColumns(line)) >= 3

AccRecord(line) ==
    LET line_list == AccColumns(line)
    IN  [accession |-> line_list[1], taxid |-> line_list[3]]

-----------------------------------------------------------------------------
(* The input files *)

\* a nodes.dmp line: fields tab-padded, each followed by a pipe
NodeLine(id, parent, rank) ==
    <<id, TAB, PIPE, TAB, parent, TAB, PIPE, TAB, rank, TAB, PIPE, NL>>

\* a names.dmp line: tax_id | name_txt | unique name | name class |
NameLine(id, name, class) ==
    <<id, TAB, PIPE, TAB, name, TAB, PIPE, TAB, TAB, PIPE, TAB, class, TAB,
      PIPE, NL>>

RECURSIVE JoinTabs(_)
JoinTabs(cols) ==
    IF cols = <<>> THEN <<>>
    ELSE IF Len(cols) = 1 THEN <<cols[1]>>
    ELSE <<cols[1], TAB>> \o JoinTabs(Tail(cols))

\* an accession2taxid line: columns separated by tabs
AccLine(cols) == JoinTabs(cols) \o <<NL>>

Header == AccLine(<<"accession", "accession.version", "taxid", "gi">>)

NodeLines ==
    { NodeLine("1", "1", "no rank"),
      NodeLine("2", "1", "species"),
      <<"3", TAB, PIPE, TAB, "1", NL>>,           \* one pipe only
      <<TAB, PIPE, TAB, PIPE, TAB, PIPE, NL>> }   \* three blank fields

NameLines ==
    { NameLine("1", "root", Marker),
      NameLine("2", "Bacteria", Marker),
      NameLine("2", "eubacteria", "synonym"),
      <<Marker, NL>> }                            \* the marker and no pipe

AccLines ==
    { AccLine(<<"A1", "A1.1", "1", "11">>),
      AccLine(<<"A2", "A2.1", "2">>),             \* taxid is the last column
      AccLine(<<"A3", "A3.1", "3", "33">>),       \* taxid of no taxon
      AccLine(<<"A4", "A4.1">>) }                 \* two columns only

SeqsUpTo(S, n) == UNION { [1..k -> S] : k \in 0..n }

GoodAccFile == <<Header, AccLine(<<"A1", "A1.1", "1", "11">>)>>

\* header, then up to MaxAccData lines; or a file of no line at all
AccFileSet ==
    { <<>> } \cup { <<Header>> \o data : data \in SeqsUpTo(AccLines, MaxAccData) }

GenNodes(n) ==
    [j \in 1..n |->
        NodeLine(ToString(j), ToString(IF j = 1 THEN 1 ELSE j \div 2), "species")]

GenNames(n) == [j \in 1..n |-> NameLine(ToString(j), "name", Marker)]

\* the sizes around the batch boundaries, and the largest
BatchCaseSizes ==
    { n \in 0..MaxTaxa :
        \/ n % BatchSize \in {0, 1, BatchSize - 1}
        \/ n = MaxTaxa }

EmptyTables == [Taxa |-> <<>>, Sequence |-> <<>>]

InitRun ==
    /\ pc = "create_db"
    /\ fileIdx = 0
    /\ taxa_info_list = <<>>
    /\ i = 0
    /\ linePos = 0
    /\ Taxa = <<>>
    /\ Sequence = <<>>
    /\ inTxn = FALSE
    /\ committed = EmptyTables
    /\ error = "none"
    /\ stdout = <<>>

\* every short nodes.dmp and names.dmp
InitTaxdumpCases ==
    /\ nodes_file \in SeqsUpTo(NodeLines, MaxLines)
    /\ names_file \in SeqsUpTo(NameLines, MaxLines)
    /\ acc_files = [k \in 1..NumAccFiles |-> GoodAccFile]

\* every short accession file, at each of the five places
InitAccessionCases ==
    /\ nodes_file = <<NodeLine("1", "1", "no rank"), NodeLine("2", "1", "species")>>
    /\ names_file = <<NameLine("1", "root", Marker), NameLine("2", "Bacteria", Marker)>>
    /\ \E p \in 1..NumAccFiles, varied \in AccFileSet,
          other \in {<<Header>>, GoodAccFile} :
            acc_files = [k \in 1..NumAccFiles |-> IF k = p THEN varied ELSE other]

\* long well-formed dump files
InitBatchCases ==
    /\ \E n \in BatchCaseSizes :
          /\ nodes_file = GenNodes(n)
          /\ names_file = GenNames(n)
    /\ acc_files = [k \in 1..NumAccFiles |-> GoodAccFile]

Init ==
    /\ InitRun
    /\ \/ InitTaxdumpCases
       \/ InitAccessionCases
       \/ InitBatchCases

-----------------------------------------------------------------------------
(* db.atomic() *)

Begin == inTxn' = TRUE /\ UNCHANGED committed

Commit ==
    /\ inTxn' = FALSE
    /\ committed' = [Taxa |-> Taxa, Sequence |-> Sequence]
    /\ UNCHANGED <<Taxa, Sequence>>

\* no scope: what was written stays written
RollbackKeepsRows ==
    /\ inTxn' = FALSE
    /\ committed' = [Taxa |-> Taxa, Sequence |-> Sequence]
    /\ UNCHANGED <<Taxa, Sequence>>

\* a rollback that also undoes the earlier calls
RollbackDropsAll ==
    /\ inTxn' = FALSE
    /\ Taxa' = <<>>
    /\ Sequence' = <<>>
    /\ committed' = EmptyTables

Rollback ==
    /\ inTxn' = FALSE
    /\ Taxa' = committed.Taxa
    /\ Sequence' = committed.Sequence
    /\ UNCHANGED committed

\* an exception leaves create_db; main() catches it and prints the help
Raise(kind, out) ==
    /\ pc' = "failed"
    /\ error' = kind
    /\ stdout' = out \o <<"usage">>

-----------------------------------------------------------------------------
(* create_db *)

\* create_db with the accession files loaded before the taxa
CreateDbAccessionsFirst ==
    /\ pc = "create_db"
    /\ pc' = "parse_accession2taxid"
    /\ UNCHANGED <<nodes_file, names_file, acc_files, fileIdx, taxa_info_list,
                   i, linePos, Taxa, Sequence, inTxn, committed, error, stdout>>

CreateDb ==
    /\ pc = "create_db"
    /\ pc' = "parse_taxdump"
    /\ UNCHANGED <<nodes_file, names_file, acc_files, fileIdx, taxa_info_list,
                   i, linePos, Taxa, Sequence, inTxn, committed, error, stdout>>

\* _parse_taxdump up to the entry of its db.atomic() scope
ParseTaxdump ==
    /\ pc = "parse_taxdump"
    /\ IF NodesOk(nodes_file) /\ NamesOk(names_file)
       THEN /\ taxa_info_list' = Merge(ParseNodes(nodes_file), ParseNames(names_file))
            /\ i' = 0
            /\ Begin
            /\ pc' = "taxa_insert"
            /\ stdout' = stdout \o <<"parsed nodes", "parsed names", "merge successful">>
            /\ UNCHANGED error
       ELSE /\ Raise("format", IF NodesOk(nodes_file)
                                THEN stdout \o <<"parsed nodes">>
                                ELSE stdout)
            /\ UNCHANGED <<taxa_info_list, i, inTxn, committed>>
    /\ UNCHANGED <<nodes_file, names_file, acc_files, fileIdx, linePos, Taxa,
                   Sequence>>

\* Taxa.insert_many(taxa_info_list[i:i+500]).execute()
InsertTaxaBatch ==
    /\ pc = "taxa_insert"
    /\ i < Len(taxa_info_list)
    /\ Taxa' = Taxa \o Batch(taxa_info_list, i)
    /\ i' = i + BatchSize
    /\ UNCHANGED <<nodes_file, names_file, acc_files, pc, fileIdx,
                   taxa_info_list, linePos, Sequence, inTxn, committed, error,
                   stdout>>

\* the loop is over and the scope commits
CommitTaxa ==
    /\ pc = "taxa_insert"
    /\ i >= Len(taxa_info_list)
    /\ Commit
    /\ pc' = "parse_accession2taxid"
    /\ stdout' = stdout \o <<"Taxa: completed">>
    /\ UNCHANGED <<nodes_file, names_file, acc_files, fileIdx, taxa_info_list,
                   i, linePos, error>>

\* the storage backend fails at an insert or at the commit
TaxaStorageFailure ==
    /\ pc = "taxa_insert"
    /\ Rollback
    /\ Raise("storage", stdout)
    /\ UNCHANGED <<nodes_file, names_file, acc_files, fileIdx, taxa_info_list,
                   i, linePos>>

\* the call without f.readline(): the header is read as a data line
OpenAccessionKeepsHeader ==
    /\ pc = "parse_accession2taxid"
    /\ fileIdx < NumAccFiles
    /\ fileIdx' = fileIdx + 1
    /\ Begin
    /\ linePos' = 0
    /\ pc' = "acc_lines"
    /\ UNCHANGED <<nodes_file, names_file, acc_files, taxa_info_list, i, Taxa,
                   Sequence, error, stdout>>

\* the next _parse_accession2taxid call: the scope, the file, the header
OpenAccession ==
    /\ pc = "parse_accession2taxid"
    /\ fileIdx < NumAccFiles
    /\ fileIdx' = fileIdx + 1
    /\ Begin
    /\ linePos' = Min(1, Len(acc_files[fileIdx + 1]))
    /\ pc' = "acc_lines"
    /\ UNCHANGED <<nodes_file, names_file, acc_files, taxa_info_list, i, Taxa,
                   Sequence, error, stdout>>

\* a loop that skips a line of fewer than three columns and goes on
CreateSequenceSkipsBadLine ==
    /\ pc = "acc_lines"
    /\ linePos < Len(acc_files[fileIdx])
    /\ LET line == acc_files[fileIdx][linePos + 1]
       IN  Sequence' = IF AccLineOk(line)
                       THEN Append(Sequence, AccRecord(line))
                       ELSE Sequence
    /\ linePos' = linePos + 1
    /\ UNCHANGED <<nodes_file, names_file, acc_files, pc, fileIdx,
                   taxa_info_list, i, Taxa, inTxn, committed, error, stdout>>

\* one turn of the loop over the lines
CreateSequence ==
    /\ pc = "acc_lines"
    /\ linePos < Len(acc_files[fileIdx])
    /\ LET line == acc_files[fileIdx][linePos + 1]
       IN  IF AccLineOk(line)
           THEN /\ Sequence' = Append(Sequence, AccRecord(line))
                /\ linePos' = linePos + 1
                /\ UNCHANGED <<pc, Taxa, inTxn, committed, error, stdout>>
           ELSE /\ Rollback
                /\ Raise("format", stdout)
                /\ UNCHANGED linePos
    /\ UNCHANGED <<nodes_file, names_file, acc_files, fileIdx, taxa_info_list, i>>

\* the file is read and the scope commits
CommitAccession ==
    /\ pc = "acc_lines"
    /\ linePos >= Len(acc_files[fileIdx])
    /\ Commit
    /\ pc' = IF fileIdx = NumAccFiles THEN "close" ELSE "parse_accession2taxid"
    /\ stdout' = stdout \o <<AccNames[fileIdx]>>
    /\ UNCHANGED <<nodes_file, names_file, acc_files, fileIdx, taxa_info_list,
                   i, linePos, error>>

\* the storage backend fails at a Sequence.create or at the commit
AccessionStorageFailure ==
    /\ pc = "acc_lines"
    /\ Rollback
    /\ Raise("storage", stdout)
    /\ UNCHANGED <<nodes_file, names_file, acc_files, fileIdx, taxa_info_list,
                   i, linePos>>

CloseDb ==
    /\ pc = "close"
    /\ pc' = "done"
    /\ UNCHANGED <<nodes_file, names_file, acc_files, fileIdx, taxa_info_list,
                   i, linePos, Taxa, Sequence, inTxn, committed, error, stdout>>

Next ==
    \/ CreateDb
    \/ ParseTaxdump
    \/ InsertTaxaBatch
    \/ CommitTaxa
    \/ TaxaStorageFailure
    \/ OpenAccession
    \/ CreateSequence
    \/ CommitAccession
    \/ AccessionStorageFailure
    \/ CloseDb

Spec == Init /\ [][Next]_vars

-----------------------------------------------------------------------------
(* What the properties below speak of, stated on the input text itself *)

Count(line, tok) == Cardinality({k \in 1..Len(line) : line[k] = tok})

\* the line without its line end
Body(line) ==
    LET ends == {k \in 0..Len(line) : \A j \in (k+1)..Len(line) : line[j] = NL}
    IN  SubSeq(line, 1, CHOOSE k \in ends : \A m \in ends : k <= m)

\* the n-th separator of the line, 0 for n = 0, past the end when there is none
SepAt(line, sep, n) ==
    LET at == {k \in 1..Len(line) : line[k] = sep}
    IN  IF n = 0 THEN 0
        ELSE IF n > Cardinality(at) THEN Len(line) + 1
        ELSE CHOOSE k \in at : Cardinality({j \in at : j <= k}) = n

\* the text between the n-th and the (n+1)-th separator: column n, from 0
Column(line, sep, n) ==
    SubSeq(line, SepAt(line, sep, n) + 1, SepAt(line, sep, n + 1) - 1)

NonBlank(text) == \E k \in 1..Len(text) : text[k] # TAB

\* a node line has a third field when it has two pipes
NodeFormatError == \E k \in 1..Len(nodes_file) : Count(nodes_file[k], PIPE) < 2

\* a name line with the marker has a second field when it has one pipe
NameFormatError ==
    \E k \in 1..Len(names_file) :
        Count(names_file[k], Marker) > 0 /\ Count(names_file[k], PIPE) < 1

HasMarker(line) == Count(line, Marker) > 0

\* the name lines that carry the marker, in the order of the file
MarkedNames == SelectSeq(names_file, HasMarker)

\* the data lines of an accession file: those after the first
DataLines(file) == IF file = <<>> THEN <<>> ELSE Tail(file)

\* the first data line of fewer than three columns, 0 when there is none
FirstBadLine(file) ==
    LET bad == {k \in 1..Len(DataLines(file)) : Count(DataLines(file)[k], TAB) < 2}
    IN  IF bad = {} THEN 0 ELSE CHOOSE k \in bad : \A m \in bad : k <= m

ExpectedRows(file) ==
    [j \in 1..Len(DataLines(file)) |->
        [accession |-> Column(Body(DataLines(file)[j]), TAB, 0),
         taxid     |-> Column(Body(DataLines(file)[j]), TAB, 2)]]

\* the rows of the first k accession files
RECURSIVE ExpectedSequence(_)
ExpectedSequence(k) ==
    IF k = 0 THEN <<>> ELSE ExpectedSequence(k - 1) \o ExpectedRows(acc_files[k])

\* the number of data lines of the accession files before the k-th
RECURSIVE RowsBefore(_)
RowsBefore(k) ==
    IF k <= 1 THEN 0 ELSE RowsBefore(k - 1) + Len(DataLines(acc_files[k - 1]))

Printed(msg) == \E k \in 1..Len(stdout) : stdout[k] = msg

TaxaCompleted == Printed("Taxa: completed")

TaxonIds(table) == {table[k].ncbi_taxid : k \in 1..Len(table)}

-----------------------------------------------------------------------------
(* The properties *)

\* C1: when the storage backend fails inside a _parse_accession2taxid call,
\* after any number of rows written in its scope, the Sequence table holds no
\* row of that call once the scope has rolled back: it holds as many rows as
\* the files loaded before have data lines.
AccessionLoadAtomic ==
    (pc = "failed" /\ error = "storage" /\ fileIdx > 0) =>
        /\ Len(Sequence) = RowsBefore(fileIdx)
        /\ Len(committed.Sequence) = RowsBefore(fileIdx)

\* a storage failure after at least one row of the call was written
AccessionLoadAtomicWitness ==
    /\ pc = "failed"
    /\ error = "storage"
    /\ fileIdx > 1
    /\ linePos >= 2
    /\ Len(Sequence) > 0

\* C2: when a load call fails and rolls back, the rows of the earlier
\* successful calls of the run (all Taxa rows, the Sequence rows of the
\* accession files before the failing one) are in the store unchanged, and
\* only the failing call's rows are absent.
PriorCallsIntact ==
    pc = "failed" =>
        /\ committed = [Taxa |-> Taxa, Sequence |-> Sequence]
        /\ IF fileIdx = 0
           THEN Taxa = <<>> /\ Sequence = <<>>
           ELSE /\ Taxa = taxa_info_list
                /\ Sequence = ExpectedSequence(fileIdx - 1)

\* the third accession load or a later one fails with taxa and rows stored
PriorCallsIntactWitness ==
    /\ pc = "failed"
    /\ fileIdx >= 3
    /\ Len(committed.Taxa) > 0
    /\ Len(committed.Sequence) >= 2

\* C3: no Sequence row is written, and no accession load is started, before
\* the taxa load has run to its end and committed all Taxa rows; after a
\* failed taxa load no accession load is started.
LoadOrdering ==
    /\ (fileIdx > 0 \/ Sequence # <<>> \/ committed.Sequence # <<>>) =>
          /\ TaxaCompleted
          /\ committed.Taxa = taxa_info_list
    /\ (pc = "failed" /\ ~TaxaCompleted) =>
          /\ fileIdx = 0
          /\ Sequence = <<>>
          /\ ~ENABLED OpenAccession

\* the first Sequence row is in the table, after a taxa load of some rows
LoadOrderingWitness ==
    /\ Len(Sequence) = 1
    /\ Len(committed.Taxa) > 0
    /\ pc = "acc_lines"

\* C4: a successful taxa load with batches of 500 stores exactly the merged
\* records, each once and in order, whatever their number: none, fewer than
\* 500, a multiple of 500 or not.
BatchingPreservesRecords ==
    TaxaCompleted =>
        /\ Taxa = taxa_info_list
        /\ committed.Taxa = taxa_info_list

\* more than two batches, the last of them not full
BatchingPreservesRecordsWitness ==
    /\ TaxaCompleted
    /\ Len(committed.Taxa) > 2 * BatchSize
    /\ Len(committed.Taxa) % BatchSize # 0


\* C5: the merged record at each position takes taxon_id, parent_taxon_id and
\* rank from the node line at that position and only scientific_name from the
\* name line with the marker at that position.
MergedFieldProvenance ==
    Printed("merge successful") =>
      LET marked == MarkedNames IN
        \A k \in 1..Len(taxa_info_list) :
            /\ taxa_info_list[k].ncbi_taxid =
                   strip(Column(nodes_file[k], PIPE, 0), TAB)
            /\ taxa_info_list[k].parent_taxid =
                   strip(Column(nodes_file[k], PIPE, 1), TAB)
            /\ taxa_info_list[k].lineage_level =
                   strip(Column(nodes_file[k], PIPE, 2), TAB)
            /\ taxa_info_list[k].tax_name =
                   strip(Column(marked[k], PIPE, 1), TAB)

TaxonIdUnique ==
    /\ Cardinality(TaxonIds(Taxa)) = Len(Taxa)
    /\ Cardinality(TaxonIds(committed.Taxa)) = Len(committed.Taxa)

\* C8: the taxid of every stored Sequence row is the taxon_id of a stored
\* Taxa row.
ReferentialIntegrity ==
    \A k \in 1..Len(committed.Sequence) :
        committed.Sequence[k].taxid \in TaxonIds(committed.Taxa)

\* C9: after each successful _parse_accession2taxid call the Sequence table
\* holds the rows of the earlier files followed by one row for each data line
\* of the file, in order, made of its columns 0 and 2, and no row for the
\* header line.
AccessionRowsParsed ==
    pc \in {"parse_accession2taxid", "close", "done"} =>
        /\ Sequence = ExpectedSequence(fileIdx)
        /\ committed.Sequence = Sequence
        /\ \A k \in 1..Len(Sequence) : Sequence[k].accession # <<"accession">>

\* all five files loaded, one of them with two data lines
AccessionRowsParsedWitness ==
    /\ pc = "done"
    /\ \E k \in 1..NumAccFiles : Len(acc_files[k]) = 3
    /\ Len(committed.Sequence) >= 6

\* C10: a format error ends the run at the malformed line.  With a node line
\* of fewer than three fields, or a name line with the marker of fewer than
\* two, no Taxa row is written and no accession file is opened.  With an
\* accession data line of fewer than three columns, the load of that file
\* never reads past that line, leaves none of the file's rows in the store,
\* and no later file is opened.
FormatErrorsFatal ==
    /\ (NodeFormatError \/ NameFormatError) =>
          /\ Taxa = <<>>
          /\ Sequence = <<>>
          /\ committed = EmptyTables
          /\ fileIdx = 0
          /\ ~Printed("merge successful")
          /\ pc \in {"create_db", "parse_taxdump", "failed"}
    /\ \A k \in 1..NumAccFiles :
          FirstBadLine(acc_files[k]) > 0 =>
              /\ fileIdx <= k
              /\ Len(committed.Sequence) <= RowsBefore(k)
              /\ fileIdx = k =>
                    /\ pc \in {"acc_lines", "failed"}
                    /\ linePos <= FirstBadLine(acc_files[k])
                    /\ pc = "failed" => Len(Sequence) = RowsBefore(k)

\* the load of a file has stopped at a malformed line that follows a good one
FormatErrorsFatalWitness ==
    /\ pc = "failed"
    /\ error = "format"
    /\ fileIdx > 1
    /\ linePos = 2
    /\ FirstBadLine(acc_files[fileIdx]) = 2
    /\ Len(Sequence) > 0

====
